---- MODULE Spec2Model ----
(***************************************************************************)
(* A model of the Segmind API client: SegmindAPI (segmind_api.py), the     *)
(* image helpers (segmind_utils.py), the model classes SDXL and            *)
(* BackgroundRemoval (segmind_models.py) and the retry wrapper             *)
(* run_with_backoff (examples.py).                                         *)
(*                                                                         *)
(* Python values are modelled as follows.                                  *)
(*   str        a sequence of one-character strings; "" is << >>           *)
(*   Optional   << >> for None, << v >> for a value v                      *)
(*   dict       a function from key names to values                        *)
(*   bytes      a sequence of integers 0..255 (files), or the name of a    *)
(*              response body whose parse is given by json / ImageOpen     *)
(***************************************************************************)
EXTENDS Integers, Sequences, FiniteSets, TLC

VARIABLES
    environ,        \* os.environ.get("SEGMIND_API_KEY"): Optional str
    api,            \* the constructed SegmindAPI object: Optional [api_key, headers]
    init,           \* the last call of SegmindAPI.__init__: its inputs and outcome
    call,           \* the last request-handling call: its inputs, POSTs and outcome
    wrapper,        \* the last call of a model method: its name and the caller's arguments
    pc,             \* run_with_backoff: Attempting / Backoff / Succeeded / Failed
    max_retries,    \* run_with_backoff: parameter
    initial_delay,  \* run_with_backoff: parameter (seconds)
    retries,        \* run_with_backoff: local
    delay,          \* run_with_backoff: local (seconds)
    attempts,       \* number of calls of func() made so far
    sleeps,         \* number of calls of time.sleep made so far
    slept,          \* cumulative time.sleep argument, in milliseconds
    wait_time,      \* run_with_backoff: local, the last time.sleep argument, in milliseconds
    n429,           \* number of attempts that raised the classifier's error for a 429 response
    last,           \* the last attempt: the response func() got and its outcome
    ret             \* how run_with_backoff ended: Optional outcome

clientVars == <<environ, api, init, call, wrapper>>
backoffVars ==
    <<pc, max_retries, initial_delay, retries, delay, attempts, sleeps, slept, wait_time, n429,
      last, ret>>
vars == <<environ, api, init, call, wrapper, pc, max_retries, initial_delay, retries, delay,
          attempts, sleeps, slept, wait_time, n429, last, ret>>

-----------------------------------------------------------------------------
(* Python primitives *)

None == << >>

Some(v) == << v >>

\* bool(x) of an Optional str: None and "" are falsy
Truthy(x) == x # None /\ x[1] # << >>

\* a or b
Or(a, b) == IF Truthy(a) THEN a ELSE b

\* s.startswith(p)
StartsWith(s, p) == Len(s) >= Len(p) /\ SubSeq(s, 1, Len(p)) = p

\* needle in hay, for two str
Contains(hay, needle) ==
    \E i \in 1..(Len(hay) - Len(needle) + 1) : SubSeq(hay, i, i + Len(needle) - 1) = needle

DigitChars == <<"0", "1", "2", "3", "4", "5", "6", "7", "8", "9">>

RECURSIVE Str(_)
\* str(n) / f"{n}" of a non-negative int
Str(n) == IF n < 10 THEN << DigitChars[n + 1] >> ELSE Str(n \div 10) \o << DigitChars[(n % 10) + 1] >>

EmptyDict == [k \in {} |-> << >>]

\* a variant that drops the other keys
DictSetAlone(d, key, value) == [k \in {key} |-> value]

\* d | {key: value}: d[key] = value, the other keys kept
DictSet(d, key, value) == [k \in DOMAIN d \cup {key} |-> IF k = key THEN value ELSE d[k]]

-----------------------------------------------------------------------------
(* Outcomes of a call: a returned value or a raised exception *)

NoDoc == [type |-> "none", dict |-> EmptyDict, str |-> << >>]

Raise(type, message) ==
    [kind |-> "raise", type |-> type, message |-> message, content |-> "", doc |-> NoDoc]

ReturnImage(content) ==
    [kind |-> "return", type |-> "Image", message |-> << >>, content |-> content, doc |-> NoDoc]

ReturnJson(doc) ==
    [kind |-> "return", type |-> "json", message |-> << >>, content |-> "", doc |-> doc]

ReturnBytes(content) ==
    [kind |-> "return", type |-> "bytes", message |-> << >>, content |-> content, doc |-> NoDoc]

-----------------------------------------------------------------------------
(* String literals of the source *)

BASE_URL ==
    <<"h","t","t","p","s",":","/","/","a","p","i",".","s","e","g","m","i","n","d",".","c","o",
      "m","/","v","1","/">>

MissingKeyMessage ==
    <<"A","P","I"," ","k","e","y"," ","m","u","s","t"," ","b","e"," ","p","r","o","v","i","d",
      "e","d"," ","e","i","t","h","e","r"," ","a","s"," ","a","n"," ","a","r","g","u","m","e",
      "n","t"," ","o","r"," ","a","s"," ","S","E","G","M","I","N","D","_","A","P","I","_","K",
      "E","Y"," ","e","n","v","i","r","o","n","m","e","n","t"," ","v","a","r","i","a","b","l",
      "e",".">>

OneSourceMessage ==
    <<"E","x","a","c","t","l","y"," ","o","n","e"," ","o","f"," ","i","m","a","g","e","_","u",
      "r","l",","," ","i","m","a","g","e","_","p","a","t","h",","," ","o","r"," ","i","m","a",
      "g","e","_","b","a","s","e","6","4"," ","m","u","s","t"," ","b","e"," ","p","r","o","v",
      "i","d","e","d",".">>

StatusMessagePrefix ==
    <<"A","P","I"," ","r","e","q","u","e","s","t"," ","f","a","i","l","e","d"," ","w","i","t",
      "h"," ","s","t","a","t","u","s"," ","c","o","d","e"," ">>

ColonSpace == <<":", " ">>

RateLimitMarker == <<"4", "2", "9">>

ImagePrefix ==
    <<"i","m","a","g","e","/">>

ApplicationJson ==
    <<"a","p","p","l","i","c","a","t","i","o","n","/","j","s","o","n">>

NoneNotIterableMessage ==
    <<"a","r","g","u","m","e","n","t"," ","o","f"," ","t","y","p","e"," ","'","N","o","n","e",
      "T","y","p","e","'"," ","i","s"," ","n","o","t"," ","i","t","e","r","a","b","l","e">>

StringIndicesMessage ==
    <<"s","t","r","i","n","g"," ","i","n","d","i","c","e","s"," ","m","u","s","t"," ","b","e",
      " ","i","n","t","e","g","e","r","s">>

CannotIdentifyMessage ==
    <<"c","a","n","n","o","t"," ","i","d","e","n","t","i","f","y"," ","i","m","a","g","e"," ",
      "f","i","l","e">>

UnboundResponseMessage ==
    <<"l","o","c","a","l"," ","v","a","r","i","a","b","l","e"," ","'","r","e","s","p","o","n",
      "s","e","'"," ","r","e","f","e","r","e","n","c","e","d"," ","b","e","f","o","r","e"," ",
      "a","s","s","i","g","n","m","e","n","t">>

NoSuchFileMessage ==
    <<"N","o"," ","s","u","c","h"," ","f","i","l","e"," ","o","r"," ","d","i","r","e","c","t",
      "o","r","y">>

DataUrlPrefix ==
    <<"d","a","t","a",":","i","m","a","g","e","/","j","p","e","g",";","b","a","s","e","6","4",
      ",">>

-----------------------------------------------------------------------------
(* Images: PIL.Image objects and the bytes of image files                     *)
(*   an image is its file format, its mode and its row of pixel values        *)
(*   a PNG file is the signature, the colour type and the pixels as they are  *)
(*   a JPEG file is the marker and the pixels after quantization              *)

MaxPixels == 3

PixelValues == {0, 1, 2}

PixelRows == UNION {[1..n -> PixelValues] : n \in 1..MaxPixels}

PngSignature == <<137, 80, 78, 71>>

JpegMarker == <<255, 216, 255>>

\* the colour type of a PNG file: 2 is RGB, 6 is RGBA
ColourType(mode) == IF mode = "RGBA" THEN 6 ELSE 2

\* what JPEG compression keeps of a pixel value
Quantize(pixels) == [i \in 1..Len(pixels) |-> pixels[i] - (pixels[i] % 2)]

PilImage(format, mode, pixels) == [format |-> format, mode |-> mode, pixels |-> pixels]

\* the images a local file can hold
LocalImages ==
    {PilImage("PNG", mode, pixels) : mode \in {"RGB", "RGBA"}, pixels \in PixelRows}
        \cup {PilImage("JPEG", "RGB", Quantize(pixels)) : pixels \in PixelRows}

\* image.save(buffered, format=format): the bytes written, None for the OSError PIL raises
\* when asked to write an RGBA image as JPEG
Save(image, format) ==
    IF format = "PNG" THEN Some(PngSignature \o <<ColourType(image.mode)>> \o image.pixels)
    ELSE IF image.mode = "RGBA" THEN None
    ELSE Some(JpegMarker \o Quantize(image.pixels))

\* the bytes of the file that holds image
FileBytes(image) == Save(image, image.format)[1]

\* Image.open(io.BytesIO(bs)): the image, None for UnidentifiedImageError
Open(bs) ==
    IF Len(bs) > 5 /\ SubSeq(bs, 1, 4) = PngSignature /\ bs[5] \in {2, 6}
        THEN Some(PilImage("PNG", IF bs[5] = 6 THEN "RGBA" ELSE "RGB", SubSeq(bs, 6, Len(bs))))
    ELSE IF Len(bs) > 3 /\ SubSeq(bs, 1, 3) = JpegMarker
        THEN Some(PilImage("JPEG", "RGB", SubSeq(bs, 4, Len(bs))))
    ELSE None

\* the name of the file that holds image: p, a or j for PNG, PNG with alpha or JPEG,
\* then its pixel values
Path(image) ==
    << IF image.format = "JPEG" THEN "j" ELSE IF image.mode = "RGBA" THEN "a" ELSE "p" >>
        \o [i \in 1..Len(image.pixels) |-> DigitChars[image.pixels[i] + 1]]

\* the image the file named path holds, None when there is no such file
ImageAt(path) ==
    IF /\ Len(path) \in 2..(MaxPixels + 1)
       /\ path[1] \in {"p", "a", "j"}
       /\ \A i \in 2..Len(path) : \E v \in PixelValues : path[i] = DigitChars[v + 1]
    THEN LET pixels == [i \in 1..(Len(path) - 1) |->
                           CHOOSE v \in PixelValues : path[i + 1] = DigitChars[v + 1]]
         IN  IF path[1] = "j" THEN
                 IF Quantize(pixels) = pixels THEN Some(PilImage("JPEG", "RGB", pixels)) ELSE None
             ELSE Some(PilImage("PNG", IF path[1] = "a" THEN "RGBA" ELSE "RGB", pixels))
    ELSE None

-----------------------------------------------------------------------------
(* The values the model draws its inputs from *)

Key1 == <<"k", "1">>

EnvKey == <<"e", "k">>

\* the api_key argument of SegmindAPI(...)
ApiKeyArgs == {None, Some(<< >>), Some(Key1)}

\* the values of the SEGMIND_API_KEY environment variable: unset, empty, set
EnvValues == {None, Some(<< >>), Some(EnvKey)}

TextModel ==
    <<"s","d","x","l","1",".","0">>

ImageModel ==
    <<"b","a","c","k","g","r","o","u","n","d","-","r","e","m","o","v","a","l">>

Url1 == <<"h", "t", "t", "p", ":", "/", "/", "u">>

Inline1 == <<"a", "G", "k", "=">>

PngPath == <<"a", ".", "p", "n", "g">>

MissingPath == <<"n", "o">>

PngFileBytes == <<137, 80, 78, 71>>

\* the local files: open(path, 'rb').read(), None when the path does not exist
FileSystem(path) ==
    IF path = PngPath THEN Some(PngFileBytes)
    ELSE IF ImageAt(path) # None THEN Some(FileBytes(ImageAt(path)[1]))
    ELSE None

ImageUrlArgs == {None, Some(<< >>), Some(Url1)}

ImagePathArgs == {None, Some(<< >>), Some(PngPath), Some(MissingPath)}

ImageBase64Args == {None, Some(<< >>), Some(Inline1)}

Prompt1 == <<"c", "a", "t">>

\* **params
Kwargs == {EmptyDict, [k \in {"prompt"} |-> Prompt1]}

StatusCodes == {200, 201, 401, 429}

ContentTypes == {None, Some(ImagePrefix \o <<"p", "n", "g">>), Some(ApplicationJson)}

\* response bodies, by name:
\*   "html"        <html>Bad Gateway</html>
\*   "err_invalid" {"error": "Invalid API key"}
\*   "err_quota"   {"error": "quota 429"}
\*   "foo_bar"     {"foo": "bar"}
\*   "null"        null
\*   "str"         "error: bad input"
\*   "png"         the bytes of a PNG image
Contents == {"html", "err_invalid", "err_quota", "foo_bar", "null", "str", "png"}

InvalidApiKey ==
    <<"I","n","v","a","l","i","d"," ","A","P","I"," ","k","e","y">>

Quota429 == <<"q", "u", "o", "t", "a", " ", "4", "2", "9">>

ErrorBadInput ==
    <<"e","r","r","o","r",":"," ","b","a","d"," ","i","n","p","u","t">>

ErrorKey == <<"e", "r", "r", "o", "r">>

JsonDict(d) == [type |-> "dict", dict |-> d, str |-> << >>]

JsonStr(s) == [type |-> "str", dict |-> EmptyDict, str |-> s]

JsonNone == [type |-> "NoneType", dict |-> EmptyDict, str |-> << >>]

\* response.json(): None when it raises ValueError, else the parsed document
json(content) ==
    CASE content = "err_invalid" -> Some(JsonDict([k \in {"error"} |-> InvalidApiKey]))
      [] content = "err_quota" -> Some(JsonDict([k \in {"error"} |-> Quota429]))
      [] content = "foo_bar" -> Some(JsonDict([k \in {"foo"} |-> <<"b", "a", "r">>]))
      [] content = "null" -> Some(JsonNone)
      [] content = "str" -> Some(JsonStr(ErrorBadInput))
      [] OTHER -> None

\* Image.open(io.BytesIO(content))
ImageOpen(content) ==
    IF content = "png" THEN ReturnImage(content)
    ELSE Raise("UnidentifiedImageError", CannotIdentifyMessage)

Responses == [status_code : StatusCodes, content_type : ContentTypes, content : Contents]

-----------------------------------------------------------------------------
(* base64.b64encode *)

B64Alphabet ==
    <<"A","B","C","D","E","F","G","H","I","J","K","L","M","N","O","P","Q","R","S","T","U","V","W",
      "X","Y","Z","a","b","c","d","e","f","g","h","i","j","k","l","m","n","o","p","q","r","s","t",
      "u","v","w","x","y","z","0","1","2","3","4","5","6","7","8","9","+","/">>

B64Sym(n) == B64Alphabet[n + 1]

RECURSIVE b64encode(_)
\* base64.b64encode(bs).decode('utf-8')
b64encode(bs) ==
    IF Len(bs) = 0 THEN << >>
    ELSE IF Len(bs) = 1 THEN
        LET n == bs[1] * 65536
        IN  <<B64Sym(n \div 262144), B64Sym((n \div 4096) % 64), "=", "=">>
    ELSE IF Len(bs) = 2 THEN
        LET n == bs[1] * 65536 + bs[2] * 256
        IN  <<B64Sym(n \div 262144), B64Sym((n \div 4096) % 64), B64Sym((n \div 64) % 64), "=">>
    ELSE
        LET n == bs[1] * 65536 + bs[2] * 256 + bs[3]
        IN  <<B64Sym(n \div 262144), B64Sym((n \div 4096) % 64), B64Sym((n \div 64) % 64),
              B64Sym(n % 64)>> \o b64encode(SubSeq(bs, 4, Len(bs)))

-----------------------------------------------------------------------------
(* segmind_utils.py: load_image_from_path, image_to_base64, base64_to_image *)

B64Index(c) == CHOOSE n \in 0..63 : B64Alphabet[n + 1] = c

RECURSIVE b64decode(_)
\* base64.b64decode(s) of a string b64encode produced
b64decode(s) ==
    IF Len(s) < 4 THEN << >>
    ELSE LET a == B64Index(s[1])
             b == B64Index(s[2])
             first == a * 4 + (b \div 16)
         IN  IF s[3] = "=" THEN <<first>>
             ELSE LET c == B64Index(s[3])
                      second == (b % 16) * 16 + (c \div 4)
                  IN  IF s[4] = "=" THEN <<first, second>>
                      ELSE <<first, second, (c % 4) * 64 + B64Index(s[4])>>
                               \o b64decode(SubSeq(s, 5, Len(s)))

ImageFileNotFoundPrefix ==
    <<"I","m","a","g","e"," ","f","i","l","e"," ","n","o","t"," ","f","o","u","n","d",":"," ">>

CannotWriteMessage ==
    <<"c","a","n","n","o","t"," ","w","r","i","t","e"," ","m","o","d","e"," ","R","G","B","A",
      " ","a","s"," ","J","P","E","G">>

DataImagePrefix ==
    <<"d","a","t","a",":","i","m","a","g","e","/">>

Base64Marker ==
    <<";","b","a","s","e","6","4",",">>

\* format.lower()
Lower(format) == IF format = "PNG" THEN <<"p","n","g">> ELSE <<"j","p","e","g">>

\* load_image_from_path(path): the image, None when it raises
load_image_from_path(path) ==
    IF FileSystem(path) = None THEN None ELSE Open(FileSystem(path)[1])

\* what load_image_from_path(path) raises when it raises
LoadError(path) ==
    IF FileSystem(path) = None THEN Raise("FileNotFoundError", ImageFileNotFoundPrefix \o path)
    ELSE Raise("UnidentifiedImageError", CannotIdentifyMessage)

\* image_to_base64(image, format): the string, None when image.save raises OSError
image_to_base64(image, format) ==
    IF Save(image, format) = None THEN None
    ELSE Some(DataImagePrefix \o Lower(format) \o Base64Marker
                \o b64encode(Save(image, format)[1]))

\* base64_str.split(",", 1)[1] if "," in base64_str
AfterComma(s) ==
    IF \E i \in 1..Len(s) : s[i] = ","
        THEN SubSeq(s, (CHOOSE i \in 1..Len(s) : s[i] = "," /\ \A j \in 1..(i - 1) : s[j] # ",") + 1,
                    Len(s))
    ELSE s

\* base64_to_image(base64_str): the image, None when Image.open raises
base64_to_image(base64_str) == Open(b64decode(AfterComma(base64_str)))

-----------------------------------------------------------------------------
(* SegmindAPI.__init__ *)

\* a variant that prefers the environment: os.environ.get(...) or api_key
ResolveEnvFirst(api_key, env) == Or(env, api_key)

\* self.api_key = api_key or os.environ.get("SEGMIND_API_KEY")
ResolveApiKey(api_key, env) == Or(api_key, env)

\* a variant that rejects only None: if self.api_key is None
KeyMissingIsNone(api_key) == api_key = None

\* if not self.api_key: raise ValueError(...)
KeyMissing(api_key) == ~Truthy(api_key)

\* self.headers = {'x-api-key': self.api_key, 'Content-Type': 'application/json'}
MakeHeaders(api_key) ==
    [k \in {"x-api-key", "Content-Type"} |-> IF k = "x-api-key" THEN api_key ELSE ApplicationJson]

\* the object SegmindAPI(api_key) builds, None when the constructor raises
NewClient(api_key, env) ==
    LET resolved == ResolveApiKey(api_key, env)
    IN  IF KeyMissing(resolved) THEN None
        ELSE Some([api_key |-> resolved[1], headers |-> MakeHeaders(resolved[1])])

InitOutcome(api_key, env) ==
    IF NewClient(api_key, env) = None THEN Raise("ValueError", MissingKeyMessage)
    ELSE ReturnBytes("")

-----------------------------------------------------------------------------
(* SegmindAPI._handle_response *)

\* if response.status_code == 200:
StatusOk(status_code) == status_code = 200

\* response.headers.get('Content-Type', '').startswith('image/')
IsImageResponse(response) ==
    StartsWith(IF response.content_type = None THEN << >> ELSE response.content_type[1], ImagePrefix)

\* 'error' in error_data: None when it raises TypeError
HasError(doc) ==
    CASE doc.type = "dict" -> Some("error" \in DOMAIN doc.dict)
      [] doc.type = "str" -> Some(Contains(doc.str, ErrorKey))
      [] OTHER -> None

\* the else branch: build the message and raise
HandleError(response) ==
    LET error_message == StatusMessagePrefix \o Str(response.status_code)
        error_data == json(response.content)
    IN  IF error_data = None THEN Raise("Exception", error_message)
        ELSE IF HasError(error_data[1]) = None THEN Raise("TypeError", NoneNotIterableMessage)
        ELSE IF ~HasError(error_data[1])[1] THEN Raise("Exception", error_message)
        ELSE IF error_data[1].type # "dict" THEN Raise("TypeError", StringIndicesMessage)
        ELSE Raise("Exception", error_message \o ColonSpace \o error_data[1].dict["error"])

\* the if branch: image, JSON or raw content
HandleSuccess(response) ==
    IF IsImageResponse(response) THEN ImageOpen(response.content)
    ELSE IF json(response.content) # None THEN ReturnJson(json(response.content)[1])
    ELSE ReturnBytes(response.content)

_handle_response(response) ==
    IF StatusOk(response.status_code) THEN HandleSuccess(response) ELSE HandleError(response)

-----------------------------------------------------------------------------
(* SegmindAPI.text_to_image and SegmindAPI.image_to_image *)

\* the record of one request-handling call
\*   request   the arguments of requests.post, None when no POST was made
\*   nposts    the number of calls of requests.post
\*   response  what requests.post returned
Call(op, args, request, response, outcome) ==
    [op |-> op, args |-> args, request |-> request,
     nposts |-> IF request = None THEN 0 ELSE 1, response |-> response, outcome |-> outcome]

Args(model_name, image_url, image_path, image_base64, params) ==
    [model_name |-> model_name, image_url |-> image_url, image_path |-> image_path,
     image_base64 |-> image_base64, params |-> params]

NoCall == Call("none", Args(<< >>, None, None, None, EmptyDict), None, None, ReturnBytes(""))

\* no model method has been called
NoWrapper == [op |-> "none", named |-> EmptyDict, kwargs |-> EmptyDict]

\* a variant that reads the environment on every request
RequestHeadersFromEnv(self) == MakeHeaders(Or(environ, Some(self.api_key))[1])

\* headers=self.headers
RequestHeaders(self) == self.headers

\* requests.post(url, json=params, headers=self.headers)
Request(self, model_name, params) ==
    [url |-> BASE_URL \o model_name, json |-> params, headers |-> RequestHeaders(self)]

\* a variant that POSTs once more after a 429 response
PostAndHandleRetrying(self, op, args, params, response) ==
    [Call(op, args, Some(Request(self, args.model_name, params)), Some(response),
          _handle_response(response))
        EXCEPT !.nposts = IF response.status_code = 429 THEN 2 ELSE 1]

\* requests.post(...) followed by return self._handle_response(response)
PostAndHandle(self, op, args, params, response) ==
    Call(op, args, Some(Request(self, args.model_name, params)), Some(response),
         _handle_response(response))

text_to_image(self, model_name, params, response) ==
    PostAndHandle(self, "text_to_image", Args(model_name, None, None, None, params), params, response)

\* sum(x is not None for x in [image_url, image_path, image_base64])
SourceCount(image_url, image_path, image_base64) ==
    (IF image_url # None THEN 1 ELSE 0) + (IF image_path # None THEN 1 ELSE 0)
        + (IF image_base64 # None THEN 1 ELSE 0)

\* a variant of the check that rejects only a call without any source
SourcesRejectedIfNone(image_url, image_path, image_base64) ==
    SourceCount(image_url, image_path, image_base64) = 0

\* if sum(...) != 1: raise ValueError(...)
SourcesRejected(image_url, image_path, image_base64) ==
    SourceCount(image_url, image_path, image_base64) # 1

image_to_image(self, model_name, image_url, image_path, image_base64, params, response) ==
    LET args == Args(model_name, image_url, image_path, image_base64, params)
        failed(e) == Call("image_to_image", args, None, None, e)
        posted(image) ==
            PostAndHandle(self, "image_to_image", args, DictSet(params, "image", image), response)
    IN  IF SourcesRejected(image_url, image_path, image_base64)
            THEN failed(Raise("ValueError", OneSourceMessage))
        ELSE IF Truthy(image_url) THEN posted(image_url[1])
        ELSE IF Truthy(image_path) THEN
            IF FileSystem(image_path[1]) = None
                THEN failed(Raise("FileNotFoundError", NoSuchFileMessage))
            ELSE posted(DataUrlPrefix \o b64encode(FileSystem(image_path[1])[1]))
        ELSE IF Truthy(image_base64) THEN posted(image_base64[1])
        ELSE failed(Raise("UnboundLocalError", UnboundResponseMessage))

-----------------------------------------------------------------------------
(* The client: one SegmindAPI object, constructed once and then used *)

NoInit == [called |-> FALSE, api_key |-> None, env |-> None, outcome |-> ReturnBytes("")]

\* run_with_backoff is not running
BackoffIdle ==
    /\ pc = "Idle"
    /\ max_retries = 0
    /\ initial_delay = 0
    /\ retries = 0
    /\ delay = 0
    /\ attempts = 0
    /\ sleeps = 0
    /\ slept = 0
    /\ wait_time = 0
    /\ n429 = 0
    /\ last = None
    /\ ret = None

\* SegmindAPI(api_key) called with SEGMIND_API_KEY = env
Constructed(api_key, env) ==
    /\ api' = NewClient(api_key, env)
    /\ init' = [called |-> TRUE, api_key |-> api_key, env |-> env,
                outcome |-> InitOutcome(api_key, env)]

\* api.text_to_image(model_name, **params), the server answering from responses
CallTextToImage(responses) ==
    /\ api # None
    /\ \E params \in Kwargs, response \in responses :
        call' = text_to_image(api[1], TextModel, params, response)
    /\ UNCHANGED <<environ, api, init, wrapper>>
    /\ UNCHANGED backoffVars

\* api.image_to_image(model_name, image_url, image_path, image_base64, **params), the
\* server answering from responses (it answers only a call that POSTs)
CallImageToImage(responses) ==
    /\ api # None
    /\ \E image_url \in ImageUrlArgs, image_path \in ImagePathArgs,
          image_base64 \in ImageBase64Args, params \in Kwargs :
        LET unanswered == image_to_image(api[1], ImageModel, image_url, image_path,
                                         image_base64, params, CHOOSE r \in responses : TRUE)
        IN  IF unanswered.nposts = 0 THEN call' = unanswered
            ELSE \E response \in responses :
                    call' = image_to_image(api[1], ImageModel, image_url, image_path,
                                           image_base64, params, response)
    /\ UNCHANGED <<environ, api, init, wrapper>>
    /\ UNCHANGED backoffVars

-----------------------------------------------------------------------------
(* Spec: a client constructed with an explicit key, then used; the server may *)
(* answer with any response                                                   *)

Init ==
    /\ environ \in EnvValues
    /\ api = NewClient(Some(Key1), environ)
    /\ init = [called |-> TRUE, api_key |-> Some(Key1), env |-> environ,
               outcome |-> InitOutcome(Some(Key1), environ)]
    /\ call = NoCall
    /\ wrapper = NoWrapper
    /\ BackoffIdle

TextToImage == CallTextToImage(Responses)

ImageToImage == CallImageToImage(Responses)

Next == TextToImage \/ ImageToImage

Spec == Init /\ [][Next]_vars

-----------------------------------------------------------------------------
(* SpecLifecycle: the environment, the construction and the use of a client *)

\* the answers of the server in SpecLifecycle
LifecycleResponses ==
    [status_code : {200, 401}, content_type : {None}, content : {"foo_bar", "err_invalid"}]

LifecycleInit ==
    /\ environ \in EnvValues
    /\ api = None
    /\ init = NoInit
    /\ call = NoCall
    /\ wrapper = NoWrapper
    /\ BackoffIdle

\* the process changes SEGMIND_API_KEY
SetEnv ==
    /\ \E v \in EnvValues \ {environ} : environ' = v
    /\ UNCHANGED <<api, init, call, wrapper>>
    /\ UNCHANGED backoffVars

\* api = SegmindAPI(api_key)
Construct ==
    /\ api = None
    /\ \E api_key \in ApiKeyArgs : Constructed(api_key, environ)
    /\ UNCHANGED <<environ, call, wrapper>>
    /\ UNCHANGED backoffVars

LifecycleTextToImage == CallTextToImage(LifecycleResponses)

LifecycleImageToImage == CallImageToImage(LifecycleResponses)

LifecycleNext == SetEnv \/ Construct \/ LifecycleTextToImage \/ LifecycleImageToImage

SpecLifecycle == LifecycleInit /\ [][LifecycleNext]_vars

-----------------------------------------------------------------------------
(* run_with_backoff(func, max_retries, initial_delay), func being a call of the *)
(* client that POSTs once and hands the response to _handle_response            *)

MaxRetries == 5

\* the values of initial_delay, in seconds
InitialDelays == {1, 2}

\* the samples of random.uniform(0, 0.1), in thousandths
JitterSamples == {0, 100}

FailedAfterPrefix ==
    <<"F","a","i","l","e","d"," ","a","f","t","e","r"," ">>

RetriesSuffix ==
    <<" ","r","e","t","r","i","e","s">>

ConnectionRefusedMessage ==
    <<"[","E","r","r","n","o"," ","1","1","1","]"," ","C","o","n","n","e","c","t","i","o","n",
      " ","r","e","f","u","s","e","d">>

\* requests.post raises instead of returning a response: connection refused, DNS failure,
\* timeout (requests.exceptions.ConnectionError and its like); there is no status then
PostFailure == [status_code |-> 0, outcome |-> Raise("ConnectionError", ConnectionRefusedMessage)]

\* what one call of func() can do: the status of the response it got and its outcome, or
\* the failure of its POST
FuncOutcomes ==
    {[status_code |-> r.status_code, outcome |-> _handle_response(r)] : r \in Responses}
        \cup {PostFailure}

\* str(e)
ErrorMessage(e) == e.message

\* a variant that does not look at the number of retries
ShouldRetryAlways(error_message, n, max) == Contains(error_message, RateLimitMarker)

\* a variant that retries once more: retries <= max_retries
ShouldRetryInclusive(error_message, n, max) == Contains(error_message, RateLimitMarker) /\ n <= max

\* "429" in error_message and retries < max_retries
ShouldRetry(error_message, n, max) == Contains(error_message, RateLimitMarker) /\ n < max

\* a variant whose jitter is ten times as wide
WaitTimeWide(d, sample) == d * 1000 + sample * d * 10

\* wait_time = delay + random.uniform(0, 0.1) * delay, in milliseconds
WaitTime(d, sample) == d * 1000 + sample * d

\* a variant whose delay does not grow
NextDelayConstant(d) == d

\* delay *= 2
NextDelay(d) == d * 2

\* while retries <= max_retries:
LoopContinues(n, max) == n <= max

\* raise e
Reraise(e) == e

BackoffInit ==
    /\ environ = None
    /\ api = NewClient(Some(Key1), None)
    /\ init = [called |-> TRUE, api_key |-> Some(Key1), env |-> None,
               outcome |-> InitOutcome(Some(Key1), None)]
    /\ call = NoCall
    /\ wrapper = NoWrapper
    /\ max_retries \in 0..MaxRetries
    /\ initial_delay \in InitialDelays
    /\ retries = 0
    /\ delay = initial_delay
    /\ pc = "Attempting"
    /\ attempts = 0
    /\ sleeps = 0
    /\ slept = 0
    /\ wait_time = 0
    /\ n429 = 0
    /\ last = None
    /\ ret = None

\* try: return func()  except Exception as e: retry or raise e
Attempt ==
    /\ pc = "Attempting"
    /\ \E f \in FuncOutcomes :
        /\ last' = Some(f)
        /\ n429' = n429 + (IF f.status_code = 429 /\ f.outcome.type = "Exception" THEN 1 ELSE 0)
        /\ IF f.outcome.kind = "return" THEN pc' = "Succeeded" /\ ret' = Some(f.outcome)
           ELSE IF ShouldRetry(ErrorMessage(f.outcome), retries, max_retries)
                THEN pc' = "Backoff" /\ ret' = None
           ELSE pc' = "Failed" /\ ret' = Some(Reraise(f.outcome))
    /\ attempts' = attempts + 1
    /\ UNCHANGED <<max_retries, initial_delay, retries, delay, sleeps, slept, wait_time>>
    /\ UNCHANGED clientVars

\* time.sleep(wait_time); delay *= 2; retries += 1; then the loop test, and the raise
\* after the loop when it fails
Sleep ==
    /\ pc = "Backoff"
    /\ \E sample \in JitterSamples : wait_time' = WaitTime(delay, sample)
    /\ slept' = slept + wait_time'
    /\ sleeps' = sleeps + 1
    /\ delay' = NextDelay(delay)
    /\ retries' = retries + 1
    /\ IF LoopContinues(retries', max_retries) THEN pc' = "Attempting" /\ ret' = None
       ELSE /\ pc' = "Failed"
            /\ ret' = Some(Raise("Exception", FailedAfterPrefix \o Str(max_retries) \o RetriesSuffix))
    /\ UNCHANGED <<max_retries, initial_delay, attempts, n429, last>>
    /\ UNCHANGED clientVars

BackoffNext == Attempt \/ Sleep

SpecBackoff == BackoffInit /\ [][BackoffNext]_vars

\* every call of func() returns or raises, and every time.sleep returns
SpecBackoffFair == BackoffInit /\ [][BackoffNext]_vars /\ WF_vars(BackoffNext)

-----------------------------------------------------------------------------
(* The model methods of SegmindAPI: sdxl, sd_outpainting, word2img, face_swap,  *)
(* veo_3, flux_kontext_pro, llava_13b                                          *)

\* Python values other than str in a request body
PyNone == <<"None">>

PyFalse == <<"False">>

PyTrue == <<"True">>

PyInt(n) == <<"int">> \o Str(n)

\* the value an optional argument has inside the method
Value(x) == IF x = None THEN PyNone ELSE x[1]

\* the value of a parameter with a default that is not None
Default(x, default) == IF x = None THEN default ELSE x[1]

\* a variant that keeps every item
AllItems(d) == d

\* {k: v for k, v in d.items() if v is not None}
NotNoneItems(d) == [k \in {key \in DOMAIN d : d[key] # PyNone} |-> d[k]]

\* {**a, **b}, a.update(b)
Update(a, b) == [k \in DOMAIN a \cup DOMAIN b |-> IF k \in DOMAIN b THEN b[k] ELSE a[k]]

\* the record of one call of a model method: the arguments the caller supplied by name
\* (None for one it left out) and its **kwargs
Wrapper(op, named, kwargs) == [op |-> op, named |-> named, kwargs |-> kwargs]

\* **kwargs of a model method
WrapperKwargs == {EmptyDict, [k \in {"samples"} |-> PyInt(1)]}

SeedArgs == {None, Some(PyInt(0))}

VeoModel ==
    <<"v","e","o","-","3">>

\* the answers of the server to veo_3
VideoResponses ==
    [status_code : StatusCodes, content_type : ContentTypes,
     content : {"png", "foo_bar", "err_invalid", "null"}]

\* if response.status_code == 200: in veo_3
VeoStatusOk(status_code) == status_code = 200

veo_3(self, prompt, seed, kwargs, response) ==
    LET params == Update(Update(DictSet(EmptyDict, "prompt", prompt),
                                NotNoneItems(DictSet(EmptyDict, "seed", Value(seed)))),
                         kwargs)
    IN  Call("veo_3", Args(VeoModel, None, None, None, params),
             Some(Request(self, VeoModel, params)), Some(response),
             IF VeoStatusOk(response.status_code) THEN ReturnBytes(response.content)
             ELSE HandleError(response))

SdxlModel ==
    <<"s","d","x","l","1",".","0","-","t","x","t","2","i","m","g">>

OutpaintingModel ==
    <<"s","d","-","o","u","t","p","a","i","n","t","i","n","g">>

Word2ImgModel ==
    <<"w","o","r","d","2","i","m","g">>

FaceSwapModel ==
    <<"f","a","c","e","-","s","w","a","p">>

FluxModel ==
    <<"f","l","u","x","-","k","o","n","t","e","x","t","-","p","r","o">>

LlavaModel ==
    <<"l","l","a","v","a","-","1","3","b">>

\* aspect_ratio="match_input_image"
MatchInputImage ==
    <<"m","a","t","c","h","_","i","n","p","u","t","_","i","m","a","g","e">>

\* seed=1
FluxSeedDefault == PyInt(1)

sdxl(self, prompt, negative_prompt, steps, seed, aspect_ratio, base64, kwargs, response) ==
    LET optional == [k \in {"negative_prompt", "steps", "seed", "aspect_ratio"} |->
                        CASE k = "negative_prompt" -> Value(negative_prompt)
                          [] k = "steps" -> Value(steps)
                          [] k = "seed" -> Value(seed)
                          [] OTHER -> Value(aspect_ratio)]
        required == [k \in {"prompt", "base64"} |-> IF k = "prompt" THEN prompt ELSE base64]
        params == Update(Update(required, NotNoneItems(optional)), kwargs)
    IN  text_to_image(self, SdxlModel, params, response)

\* params = {}; if value: params[key] = value; params.update(kwargs)
TruthyThenKwargs(key, value, kwargs) ==
    Update(IF Truthy(value) THEN DictSet(EmptyDict, key, value[1]) ELSE EmptyDict, kwargs)

sd_outpainting(self, image_url, image_path, image_base64, prompt, kwargs, response) ==
    image_to_image(self, OutpaintingModel, image_url, image_path, image_base64,
                   TruthyThenKwargs("prompt", prompt, kwargs), response)

word2img(self, image_url, image_path, image_base64, prompt, kwargs, response) ==
    image_to_image(self, Word2ImgModel, image_url, image_path, image_base64,
                   TruthyThenKwargs("prompt", prompt, kwargs), response)

face_swap(self, image_url, image_path, image_base64, mask_url, kwargs, response) ==
    image_to_image(self, FaceSwapModel, image_url, image_path, image_base64,
                   TruthyThenKwargs("mask", mask_url, kwargs), response)

flux_kontext_pro(self, prompt, input_image, seed, aspect_ratio, kwargs, response) ==
    LET named == [k \in {"prompt", "seed", "aspect_ratio"} |->
                     CASE k = "prompt" -> prompt
                       [] k = "seed" -> seed
                       [] OTHER -> aspect_ratio]
        merged == Update(named, kwargs)
        params == IF Truthy(input_image) THEN DictSet(merged, "input_image", input_image[1])
                  ELSE merged
    IN  PostAndHandle(self, "flux_kontext_pro", Args(FluxModel, None, None, None, params),
                      params, response)

llava_13b(self, messages, response) ==
    LET params == DictSet(EmptyDict, "messages", messages)
    IN  PostAndHandle(self, "llava_13b", Args(LlavaModel, None, None, None, params),
                      params, response)

\* the argument a method receives for parameter key when called with **d
Arg(d, key) == IF key \in DOMAIN d /\ d[key] # PyNone THEN Some(d[key]) ELSE None

\* SDXL.generate (segmind_models.py) without save_path
SDXL_generate(self, prompt, negative_prompt, steps, seed, aspect_ratio, kwargs, response) ==
    LET named == [k \in {"prompt", "negative_prompt", "steps", "seed"} |->
                     CASE k = "prompt" -> prompt
                       [] k = "negative_prompt" -> Value(negative_prompt)
                       [] k = "steps" -> Value(steps)
                       [] OTHER -> Value(seed)]
        merged == Update(named, kwargs)
        params == IF aspect_ratio # None THEN DictSet(merged, "aspect_ratio", aspect_ratio[1])
                  ELSE merged
        rest == [k \in DOMAIN params \ {"prompt", "negative_prompt", "steps", "seed",
                                        "aspect_ratio", "base64"} |-> params[k]]
    IN  sdxl(self, params["prompt"], Arg(params, "negative_prompt"), Arg(params, "steps"),
             Arg(params, "seed"), Arg(params, "aspect_ratio"),
             IF "base64" \in DOMAIN params THEN params["base64"] ELSE PyFalse, rest, response)

\* the arguments of the model methods
NegativePromptArgs == {None, Some(<<"b","l","u","r","r","y">>)}

StepsArgs == {None, Some(PyInt(30))}

AspectRatioArgs == {None, Some(<<"1",":","1">>)}

Base64Args == {None, Some(PyTrue)}

PromptArgs == {None, Some(<< >>), Some(Prompt1)}

Mask1 == <<"h","t","t","p",":","/","/","m">>

MaskUrlArgs == {None, Some(<< >>), Some(Mask1)}

InputImageArgs == {None, Some(<< >>), Some(Url1)}

FluxSeedArgs == {None, Some(PyInt(7))}

WrapperUrlArgs == {None, Some(Url1)}

WrapperPathArgs == {None, Some(PngPath)}

WrapperBase64Args == {None, Some(Inline1)}

\* messages: a list of two messages, each a role and a content
Messages1 ==
    << <<<<"u","s","e","r">>, <<"h","i">>>>, <<<<"u","s","e","r">>, <<"y","o">>>> >>

\* the answers of the server to the other model methods
WrapperResponses ==
    [status_code : {200, 429}, content_type : {Some(ImagePrefix \o <<"p", "n", "g">>)},
     content : {"png"}]

background_removal(self, image_url, image_path, image_base64, kwargs, response) ==
    image_to_image(self, ImageModel, image_url, image_path, image_base64, kwargs, response)

\* BackgroundRemoval.generate (segmind_models.py) without save_path
BackgroundRemoval_generate(self, image_url, image_path, kwargs, response) ==
    LET failed(e) == Call("BackgroundRemoval.generate",
                          Args(ImageModel, image_url, image_path, None, kwargs), None, None, e)
    IN  IF Truthy(image_path) /\ ~Truthy(image_url) THEN
            IF load_image_from_path(image_path[1]) = None
                THEN failed(LoadError(image_path[1]))
            ELSE IF image_to_base64(load_image_from_path(image_path[1])[1], "JPEG") = None
                THEN failed(Raise("OSError", CannotWriteMessage))
            ELSE background_removal(self, None, None,
                    image_to_base64(load_image_from_path(image_path[1])[1], "JPEG"),
                    kwargs, response)
        ELSE background_removal(self, image_url, None, None, kwargs, response)

\* SDOutpainting.generate (segmind_models.py) without save_path
SDOutpainting_generate(self, prompt, image_url, image_path, kwargs, response) ==
    LET failed(e) == Call("SDOutpainting.generate",
                          Args(OutpaintingModel, image_url, image_path, None, kwargs),
                          None, None, e)
    IN  IF Truthy(image_path) /\ ~Truthy(image_url) THEN
            IF load_image_from_path(image_path[1]) = None
                THEN failed(LoadError(image_path[1]))
            ELSE IF image_to_base64(load_image_from_path(image_path[1])[1], "JPEG") = None
                THEN failed(Raise("OSError", CannotWriteMessage))
            ELSE sd_outpainting(self, None, None,
                    image_to_base64(load_image_from_path(image_path[1])[1], "JPEG"),
                    prompt, kwargs, response)
        ELSE sd_outpainting(self, image_url, None, None, prompt, kwargs, response)

\* FaceSwap.generate (segmind_models.py) without save_path
FaceSwap_generate(self, image_url, image_path, mask_url, kwargs, response) ==
    LET failed(e) == Call("FaceSwap.generate",
                          Args(FaceSwapModel, image_url, image_path, None, kwargs),
                          None, None, e)
    IN  IF Truthy(image_path) /\ ~Truthy(image_url) THEN
            IF load_image_from_path(image_path[1]) = None
                THEN failed(LoadError(image_path[1]))
            ELSE IF image_to_base64(load_image_from_path(image_path[1])[1], "JPEG") = None
                THEN failed(Raise("OSError", CannotWriteMessage))
            ELSE face_swap(self, None, None,
                    image_to_base64(load_image_from_path(image_path[1])[1], "JPEG"),
                    mask_url, kwargs, response)
        ELSE face_swap(self, image_url, None, None, mask_url, kwargs, response)

-----------------------------------------------------------------------------
(* SpecModels: a constructed client whose model methods are called *)

ModelsInit ==
    /\ environ = None
    /\ api = NewClient(Some(Key1), None)
    /\ init = [called |-> TRUE, api_key |-> Some(Key1), env |-> None,
               outcome |-> InitOutcome(Some(Key1), None)]
    /\ call = NoCall
    /\ wrapper = NoWrapper
    /\ BackoffIdle

\* the server answers a method that POSTs; a method that raises before its POST gets no
\* answer
Served(method(_), responses) ==
    LET unanswered == method(CHOOSE r \in responses : TRUE)
    IN  IF unanswered.nposts = 0 THEN call' = unanswered
        ELSE \E response \in responses : call' = method(response)

\* api.veo_3(prompt, seed, **kwargs)
Veo3 ==
    /\ \E seed \in SeedArgs, kwargs \in WrapperKwargs, response \in VideoResponses :
        /\ wrapper' = Wrapper("veo_3", [prompt |-> Some(Prompt1), seed |-> seed], kwargs)
        /\ call' = veo_3(api[1], Prompt1, seed, kwargs, response)
    /\ UNCHANGED <<environ, api, init>>
    /\ UNCHANGED backoffVars

\* api.sdxl(prompt, negative_prompt, steps, seed, aspect_ratio, base64, **kwargs)
Sdxl ==
    /\ \E negative_prompt \in NegativePromptArgs, steps \in StepsArgs, seed \in SeedArgs,
          aspect_ratio \in AspectRatioArgs, base64 \in Base64Args, kwargs \in WrapperKwargs,
          response \in WrapperResponses :
        /\ wrapper' = Wrapper("sdxl",
                [prompt |-> Some(Prompt1), negative_prompt |-> negative_prompt,
                 steps |-> steps, seed |-> seed, aspect_ratio |-> aspect_ratio,
                 base64 |-> base64], kwargs)
        /\ call' = sdxl(api[1], Prompt1, negative_prompt, steps, seed, aspect_ratio,
                        Default(base64, PyFalse), kwargs, response)
    /\ UNCHANGED <<environ, api, init>>
    /\ UNCHANGED backoffVars

\* SDXL(api_key).generate(prompt, negative_prompt, steps, seed, aspect_ratio, **kwargs)
SdxlGenerate ==
    /\ \E negative_prompt \in NegativePromptArgs, steps \in StepsArgs, seed \in SeedArgs,
          aspect_ratio \in AspectRatioArgs, kwargs \in WrapperKwargs,
          response \in WrapperResponses :
        /\ wrapper' = Wrapper("SDXL.generate",
                [prompt |-> Some(Prompt1), negative_prompt |-> negative_prompt,
                 steps |-> steps, seed |-> seed, aspect_ratio |-> aspect_ratio], kwargs)
        /\ call' = SDXL_generate(api[1], Prompt1, negative_prompt, steps, seed, aspect_ratio,
                                 kwargs, response)
    /\ UNCHANGED <<environ, api, init>>
    /\ UNCHANGED backoffVars

\* api.sd_outpainting(image_url, image_path, image_base64, prompt, **kwargs)
SdOutpainting ==
    /\ \E image_url \in WrapperUrlArgs, image_path \in WrapperPathArgs,
          image_base64 \in WrapperBase64Args, prompt \in PromptArgs, kwargs \in WrapperKwargs :
        LET method(response) == sd_outpainting(api[1], image_url, image_path, image_base64,
                                               prompt, kwargs, response)
        IN  /\ wrapper' = Wrapper("sd_outpainting",
                    [image_url |-> image_url, image_path |-> image_path,
                     image_base64 |-> image_base64, prompt |-> prompt], kwargs)
            /\ Served(method, WrapperResponses)
    /\ UNCHANGED <<environ, api, init>>
    /\ UNCHANGED backoffVars

\* api.word2img(image_url, image_path, image_base64, prompt, **kwargs)
Word2Img ==
    /\ \E image_url \in WrapperUrlArgs, image_path \in WrapperPathArgs,
          image_base64 \in WrapperBase64Args, prompt \in PromptArgs, kwargs \in WrapperKwargs :
        LET method(response) == word2img(api[1], image_url, image_path, image_base64,
                                         prompt, kwargs, response)
        IN  /\ wrapper' = Wrapper("word2img",
                    [image_url |-> image_url, image_path |-> image_path,
                     image_base64 |-> image_base64, prompt |-> prompt], kwargs)
            /\ Served(method, WrapperResponses)
    /\ UNCHANGED <<environ, api, init>>
    /\ UNCHANGED backoffVars

\* api.face_swap(image_url, image_path, image_base64, mask_url, **kwargs)
FaceSwap ==
    /\ \E image_url \in WrapperUrlArgs, image_path \in WrapperPathArgs,
          image_base64 \in WrapperBase64Args, mask_url \in MaskUrlArgs,
          kwargs \in WrapperKwargs :
        LET method(response) == face_swap(api[1], image_url, image_path, image_base64,
                                          mask_url, kwargs, response)
        IN  /\ wrapper' = Wrapper("face_swap",
                    [image_url |-> image_url, image_path |-> image_path,
                     image_base64 |-> image_base64, mask_url |-> mask_url], kwargs)
            /\ Served(method, WrapperResponses)
    /\ UNCHANGED <<environ, api, init>>
    /\ UNCHANGED backoffVars

\* api.flux_kontext_pro(prompt, input_image, seed, aspect_ratio, **kwargs)
FluxKontextPro ==
    /\ \E input_image \in InputImageArgs, seed \in FluxSeedArgs,
          aspect_ratio \in AspectRatioArgs, kwargs \in WrapperKwargs,
          response \in WrapperResponses :
        /\ wrapper' = Wrapper("flux_kontext_pro",
                [prompt |-> Some(Prompt1), input_image |-> input_image, seed |-> seed,
                 aspect_ratio |-> aspect_ratio], kwargs)
        /\ call' = flux_kontext_pro(api[1], Prompt1, input_image,
                                    Default(seed, FluxSeedDefault),
                                    Default(aspect_ratio, MatchInputImage), kwargs, response)
    /\ UNCHANGED <<environ, api, init>>
    /\ UNCHANGED backoffVars

\* api.llava_13b(messages)
Llava13b ==
    /\ \E response \in WrapperResponses :
        /\ wrapper' = Wrapper("llava_13b", [messages |-> Some(Messages1)], EmptyDict)
        /\ call' = llava_13b(api[1], Messages1, response)
    /\ UNCHANGED <<environ, api, init>>
    /\ UNCHANGED backoffVars

ModelsNext ==
    \/ Veo3
    \/ Sdxl
    \/ SdxlGenerate
    \/ SdOutpainting
    \/ Word2Img
    \/ FaceSwap
    \/ FluxKontextPro
    \/ Llava13b

SpecModels == ModelsInit /\ [][ModelsNext]_vars

-----------------------------------------------------------------------------
(* SpecEncoding: a local image file is sent, by image_to_image itself or by the *)
(* facade BackgroundRemoval.generate                                           *)

\* the answer of the server in SpecEncoding
EncodingResponse ==
    [status_code |-> 200, content_type |-> Some(ImagePrefix \o <<"p", "n", "g">>),
     content |-> "png"]

\* api.image_to_image(model_name, image_path=path)
EncodeInCall ==
    /\ \E image \in LocalImages :
        call' = image_to_image(api[1], ImageModel, None, Some(Path(image)), None, EmptyDict,
                               EncodingResponse)
    /\ wrapper' = NoWrapper
    /\ UNCHANGED <<environ, api, init>>
    /\ UNCHANGED backoffVars

\* BackgroundRemoval(api_key).generate(image_path=path)
EncodeInFacade ==
    /\ \E image \in LocalImages :
        /\ wrapper' = Wrapper("BackgroundRemoval.generate",
                              [image_url |-> None, image_path |-> Some(Path(image))], EmptyDict)
        /\ call' = BackgroundRemoval_generate(api[1], None, Some(Path(image)), EmptyDict,
                                              EncodingResponse)
    /\ UNCHANGED <<environ, api, init>>
    /\ UNCHANGED backoffVars

EncodingNext == EncodeInCall \/ EncodeInFacade

SpecEncoding == ModelsInit /\ [][EncodingNext]_vars

-----------------------------------------------------------------------------
(* SpecFacades: the generate methods of the image-taking model classes *)

\* a local PNG file
PhotoPath == Path(PilImage("PNG", "RGB", <<1>>))

\* image_path of a generate call
FacadePathArgs == {None, Some(<< >>), Some(PhotoPath), Some(MissingPath)}

\* BackgroundRemoval(api_key).generate(image_url, image_path, **kwargs)
BackgroundRemovalGenerate ==
    /\ \E image_url \in ImageUrlArgs, image_path \in FacadePathArgs, kwargs \in WrapperKwargs :
        LET method(response) ==
                BackgroundRemoval_generate(api[1], image_url, image_path, kwargs, response)
        IN  /\ wrapper' = Wrapper("BackgroundRemoval.generate",
                                  [image_url |-> image_url, image_path |-> image_path], kwargs)
            /\ Served(method, WrapperResponses)
    /\ UNCHANGED <<environ, api, init>>
    /\ UNCHANGED backoffVars

\* SDOutpainting(api_key).generate(prompt, image_url, image_path, **kwargs)
SdOutpaintingGenerate ==
    /\ \E prompt \in PromptArgs, image_url \in ImageUrlArgs, image_path \in FacadePathArgs,
          kwargs \in WrapperKwargs :
        LET method(response) ==
                SDOutpainting_generate(api[1], prompt, image_url, image_path, kwargs, response)
        IN  /\ wrapper' = Wrapper("SDOutpainting.generate",
                                  [image_url |-> image_url, image_path |-> image_path,
                                   prompt |-> prompt], kwargs)
            /\ Served(method, WrapperResponses)
    /\ UNCHANGED <<environ, api, init>>
    /\ UNCHANGED backoffVars

\* FaceSwap(api_key).generate(image_url, image_path, mask_url, **kwargs)
FaceSwapGenerate ==
    /\ \E image_url \in ImageUrlArgs, image_path \in FacadePathArgs, mask_url \in MaskUrlArgs,
          kwargs \in WrapperKwargs :
        LET method(response) ==
                FaceSwap_generate(api[1], image_url, image_path, mask_url, kwargs, response)
        IN  /\ wrapper' = Wrapper("FaceSwap.generate",
                                  [image_url |-> image_url, image_path |-> image_path,
                                   mask_url |-> mask_url], kwargs)
            /\ Served(method, WrapperResponses)
    /\ UNCHANGED <<environ, api, init>>
    /\ UNCHANGED backoffVars

FacadesNext == BackgroundRemovalGenerate \/ SdOutpaintingGenerate \/ FaceSwapGenerate

SpecFacades == ModelsInit /\ [][FacadesNext]_vars

-----------------------------------------------------------------------------
(* SpecMerge: calls whose **kwargs name a key of the body that a named argument *)
(* also fills                                                                  *)

Mask2 == <<"h","t","t","p",":","/","/","x">>

Image2 == <<"h","t","t","p",":","/","/","y">>

\* **kwargs with and without the keys mask and image
MergeKwargs ==
    {EmptyDict, [k \in {"mask"} |-> Mask2], [k \in {"image"} |-> Image2],
     [k \in {"samples"} |-> PyInt(1)]}

\* api.face_swap(image_url, image_path, image_base64, mask_url, **kwargs)
MergeFaceSwap ==
    /\ \E image_url \in WrapperUrlArgs, image_path \in {None, Some(PhotoPath)},
          image_base64 \in WrapperBase64Args, mask_url \in MaskUrlArgs, kwargs \in MergeKwargs :
        LET method(response) == face_swap(api[1], image_url, image_path, image_base64,
                                          mask_url, kwargs, response)
        IN  /\ wrapper' = Wrapper("face_swap",
                    [image_url |-> image_url, image_path |-> image_path,
                     image_base64 |-> image_base64, mask_url |-> mask_url], kwargs)
            /\ Served(method, WrapperResponses)
    /\ UNCHANGED <<environ, api, init>>
    /\ UNCHANGED backoffVars

\* api.image_to_image(model_name, image_url, image_path, image_base64, **params)
MergeImageToImage ==
    /\ \E image_url \in WrapperUrlArgs, image_path \in {None, Some(PhotoPath)},
          image_base64 \in WrapperBase64Args, params \in MergeKwargs :
        LET method(response) == image_to_image(api[1], ImageModel, image_url, image_path,
                                               image_base64, params, response)
        IN  /\ wrapper' = Wrapper("image_to_image",
                    [image_url |-> image_url, image_path |-> image_path,
                     image_base64 |-> image_base64], params)
            /\ Served(method, WrapperResponses)
    /\ UNCHANGED <<environ, api, init>>
    /\ UNCHANGED backoffVars

MergeNext == MergeFaceSwap \/ MergeImageToImage

SpecMerge == ModelsInit /\ [][MergeNext]_vars

-----------------------------------------------------------------------------
(* The claims *)

\* the number of image sources a call of image_to_image was given
Supplied(args) ==
    Cardinality({i \in 1..3 : <<args.image_url, args.image_path, args.image_base64>>[i] # None})

\* C1: a call of image_to_image given zero, two or three of image_url, image_path and
\* image_base64 raises the ValueError of the source check and makes no POST.
C1_NotExactlyOneSourceRejected ==
    (call.op = "image_to_image" /\ Supplied(call.args) # 1) =>
        /\ call.outcome = Raise("ValueError", OneSourceMessage)
        /\ call.nposts = 0
        /\ call.request = None
        /\ call.response = None

C1_Witness ==
    /\ call.op = "image_to_image"
    /\ Supplied(call.args) = 2
    /\ Truthy(call.args.image_url)
    /\ Truthy(call.args.image_path)
    /\ call.outcome.type = "ValueError"

\* every attempt so far raised the classifier's error for a 429 response
AllRateLimited == attempts > 0 /\ n429 = attempts

\* C2: when the first k <= max_retries attempts fail with the 429 error and attempt k+1
\* succeeds, run_with_backoff does not give up before that attempt, returns its result
\* unchanged after exactly k retries and k sleeps, and has slept at least
\* initial_delay * (2^k - 1).
C2_SucceedsAfterRateLimits ==
    /\ (AllRateLimited /\ attempts <= max_retries) => pc \in {"Backoff", "Attempting"}
    /\ (pc = "Succeeded" /\ n429 = attempts - 1) =>
        /\ last[1].outcome.kind = "return"
        /\ ret = Some(last[1].outcome)
        /\ retries = attempts - 1
        /\ sleeps = attempts - 1
        /\ retries <= max_retries
        /\ slept >= initial_delay * 1000 * (2 ^ (attempts - 1) - 1)

C2_Witness ==
    /\ pc = "Succeeded"
    /\ max_retries = 5
    /\ attempts = 3
    /\ n429 = 2
    /\ retries = 2
    /\ slept >= 3 * initial_delay * 1000

\* C3: when every attempt fails with the 429 error, run_with_backoff makes exactly
\* max_retries + 1 attempts and then raises the error of the last attempt itself.
C3_ExhaustionRaisesLastError ==
    /\ attempts <= max_retries + 1
    /\ (AllRateLimited /\ attempts <= max_retries) => pc \in {"Backoff", "Attempting"}
    /\ (AllRateLimited /\ attempts = max_retries + 1) => pc = "Failed"
    /\ (pc = "Failed" /\ AllRateLimited) =>
        /\ attempts = max_retries + 1
        /\ ret = Some(last[1].outcome)
        /\ last[1].status_code = 429

C3_Witness ==
    /\ pc = "Failed"
    /\ max_retries = 2
    /\ AllRateLimited
    /\ attempts = 3
    /\ sleeps = 2

\* C4: an attempt whose error comes from a response with a status other than 429 is
\* never retried: run_with_backoff raises that error at once, without sleeping for it.
C4_OnlyStatus429Retried ==
    (last # None /\ last[1].outcome.kind = "raise" /\ last[1].status_code # 429) =>
        /\ pc = "Failed"
        /\ ret = Some(last[1].outcome)
        /\ sleeps = attempts - 1

Holds(key) ==
    /\ init.outcome.kind = "return"
    /\ api # None
    /\ api[1].api_key = key
    /\ api[1].headers["x-api-key"] = key
    /\ call.request # None => call.request[1].headers["x-api-key"] = key

\* C6 as stated: a non-empty explicit api_key is the credential even if SEGMIND_API_KEY
\* is set; with no explicit key and SEGMIND_API_KEY set, the environment value is the
\* credential; construction succeeds and the credential is stored and sent verbatim.
C6_AsStated ==
    /\ (init.called /\ Truthy(init.api_key)) => Holds(init.api_key[1])
    /\ (init.called /\ init.api_key = None /\ init.env # None) => Holds(init.env[1])

\* C6 amended: as stated, for SEGMIND_API_KEY set to a non-empty value.
C6_CredentialResolution ==
    /\ (init.called /\ Truthy(init.api_key)) => Holds(init.api_key[1])
    /\ (init.called /\ init.api_key = None /\ Truthy(init.env)) => Holds(init.env[1])

C6_Witness ==
    /\ init.called
    /\ init.api_key = Some(Key1)
    /\ init.env = Some(EnvKey)
    /\ api # None
    /\ call.request # None
    /\ call.request[1].headers["x-api-key"] = Key1

\* C7: once constructed the client never changes, and every POST it makes carries the
\* key it holds and Content-Type application/json, whatever SEGMIND_API_KEY is by then.
C7_CredentialImmutable ==
    [][api # None =>
        /\ api' = api
        /\ call'.request # None =>
            /\ call'.request[1].headers["x-api-key"] = api[1].api_key
            /\ call'.request[1].headers["Content-Type"] = ApplicationJson
            /\ DOMAIN call'.request[1].headers = {"x-api-key", "Content-Type"}]_vars

C7_Witness ==
    /\ init.api_key = None
    /\ init.env = Some(EnvKey)
    /\ environ = None
    /\ call.request # None
    /\ call.request[1].headers["x-api-key"] = EnvKey

\* the error _handle_response raises for a status: its message starts with the status text
IsStatusError(outcome) ==
    /\ outcome.kind = "raise"
    /\ outcome.type = "Exception"
    /\ StartsWith(outcome.message, StatusMessagePrefix)

\* C8: the status error is raised exactly for a status outside 200..299; a response with
\* a status in 200..299 is classified as the same response with status 200 is.
C8_SuccessIsAny2xx ==
    call.response # None =>
        LET response == call.response[1]
        IN  /\ IsStatusError(call.outcome) <=> response.status_code \notin 200..299
            /\ response.status_code \in 200..299 =>
                call.outcome = _handle_response([response EXCEPT !.status_code = 200])

\* C9: for a status outside 200..299 the raised message contains the status code; it is
\* the status text, ": " and the server's 'error' string when the body parses with an
\* 'error' field, and the status text alone when the body does not parse or has no
\* such field.
C9_ErrorMessage ==
    (call.response # None /\ call.response[1].status_code \notin 200..299) =>
        LET response == call.response[1]
            doc == json(response.content)
            generic == StatusMessagePrefix \o Str(response.status_code)
            hasError == doc # None /\ doc[1].type = "dict" /\ "error" \in DOMAIN doc[1].dict
        IN  /\ call.outcome.kind = "raise"
            /\ Contains(call.outcome.message, Str(response.status_code))
            /\ call.outcome.message =
                IF hasError THEN generic \o ColonSpace \o doc[1].dict["error"] ELSE generic

\* C10: for a status in 200..299 and a content type that is absent or does not begin
\* with image/, the parsed body is returned when the body parses and the raw body when
\* it does not; nothing is raised.
C10_NonImageSuccess ==
    (/\ call.response # None
     /\ call.response[1].status_code \in 200..299
     /\ ~IsImageResponse(call.response[1])) =>
        LET response == call.response[1]
        IN  call.outcome = IF json(response.content) # None
                           THEN ReturnJson(json(response.content)[1])
                           ELSE ReturnBytes(response.content)

\* C11: for a status in 200..299 and a content type that begins with image/, the body is
\* decoded as an image: an Image is returned when it decodes and the decode error is
\* raised when it does not; the parsed body and the raw body are never returned, even
\* when the body is valid JSON.
C11_ImageSuccess ==
    (/\ call.response # None
     /\ call.response[1].status_code \in 200..299
     /\ IsImageResponse(call.response[1])) =>
        LET response == call.response[1]
        IN  /\ call.outcome = ImageOpen(response.content)
            /\ \/ call.outcome = ReturnImage(response.content)
               \/ call.outcome = Raise("UnidentifiedImageError", CannotIdentifyMessage)
            /\ call.outcome # ReturnJson(NoDoc)
            /\ json(response.content) # None =>
                call.outcome # ReturnJson(json(response.content)[1])
            /\ call.outcome # ReturnBytes(response.content)

\* C11 for the status 200 alone, the only status the code decodes an image for
C11_ImageSuccess200 ==
    (/\ call.response # None
     /\ call.response[1].status_code = 200
     /\ IsImageResponse(call.response[1])) =>
        /\ call.outcome = ImageOpen(call.response[1].content)
        /\ call.outcome.kind = "return" => call.outcome = ReturnImage(call.response[1].content)

\* C12: veo_3 returns the raw body of every response with a status in 200..299, whatever
\* its content type and body; for any other status it raises what _handle_response
\* raises for that response; it never returns an Image or a parsed body.
C12_VideoIsRawBytes ==
    call.op = "veo_3" =>
        LET response == call.response[1]
        IN  /\ response.status_code \in 200..299 =>
                call.outcome = ReturnBytes(response.content)
            /\ response.status_code \notin 200..299 =>
                call.outcome = _handle_response(response)
            /\ call.outcome.kind = "return" => call.outcome.type \notin {"Image", "json"}

\* C12 with the status 200 as the only success, as the code has it
C12_VideoIsRawBytes200 ==
    call.op = "veo_3" =>
        LET response == call.response[1]
        IN  /\ response.status_code = 200 => call.outcome = ReturnBytes(response.content)
            /\ response.status_code # 200 =>
                /\ call.outcome = _handle_response(response)
                /\ call.outcome.kind = "raise"
            /\ call.outcome.kind = "return" => call.outcome.type \notin {"Image", "json"}

\* C13: a call of a SegmindAPI method makes at most one POST and never sleeps or repeats
\* itself, whatever the status of the response; a 429 response is answered by raising
\* after that single POST.
C13_DispatchNeverRetries ==
    /\ call.nposts \in {0, 1}
    /\ call.response # None <=> call.nposts = 1
    /\ call.request # None <=> call.nposts = 1
    /\ (call.response # None /\ call.response[1].status_code = 429) =>
        /\ call.nposts = 1
        /\ call.outcome.kind = "raise"
    /\ sleeps = 0
    /\ slept = 0
    /\ attempts = 0
    /\ pc = "Idle"

C13_Witness ==
    /\ wrapper.op = "sdxl"
    /\ call.op = "text_to_image"
    /\ call.response # None
    /\ call.response[1].status_code = 429
    /\ call.nposts = 1
    /\ call.outcome.kind = "raise"

\* C14: an attempt that fails in the network layer is retried like a rate-limited one:
\* run_with_backoff gives up on such an error only when no retry is left.
C14_TransportErrorRetried ==
    (last # None /\ last[1].outcome.type = "ConnectionError") =>
        /\ pc \in {"Backoff", "Attempting", "Failed"}
        /\ pc = "Failed" =>
            /\ retries = max_retries
            /\ ret = Some(last[1].outcome)

\* the methods C15 is about
PayloadMethods ==
    {"sdxl", "veo_3", "sd_outpainting", "word2img", "face_swap", "flux_kontext_pro",
     "SDXL.generate"}

\* the key of the body a named parameter is sent under
ParamKey(p) ==
    CASE p = "mask_url" -> "mask"
      [] p \in {"image_url", "image_path", "image_base64"} -> "image"
      [] OTHER -> p

\* the keys a method sends with the default of its signature when the caller leaves them out
DefaultItems(op) ==
    CASE op \in {"sdxl", "SDXL.generate"} -> [k \in {"base64"} |-> PyFalse]
      [] op = "flux_kontext_pro" ->
            [k \in {"seed", "aspect_ratio"} |->
                IF k = "seed" THEN FluxSeedDefault ELSE MatchInputImage]
      [] OTHER -> EmptyDict

\* the keys of the named parameters the caller supplied
SuppliedKeys == {ParamKey(p) : p \in {q \in DOMAIN wrapper.named : wrapper.named[q] # None}}

\* the keys of the named parameters the caller left out, and gave no other way
UnsetKeys ==
    {ParamKey(p) : p \in DOMAIN wrapper.named} \ (SuppliedKeys \cup DOMAIN wrapper.kwargs)

\* C15 as stated: the body of a model call has no key for a named parameter the caller
\* left out, and no key with the value None.
C15_AsStated ==
    (wrapper.op \in PayloadMethods /\ call.request # None) =>
        LET body == call.request[1].json
        IN  /\ \A k \in UnsetKeys : k \notin DOMAIN body
            /\ \A k \in DOMAIN body : body[k] # PyNone

\* C15 amended: the body has no key for a left-out parameter whose default is None; a
\* left-out parameter with another default (base64=False of sdxl, seed=1 and
\* aspect_ratio="match_input_image" of flux_kontext_pro) is sent with that default; every
\* key of the body comes from a supplied parameter, from **kwargs or from such a default;
\* no key has the value None.
C15_UnsetOmitted ==
    (wrapper.op \in PayloadMethods /\ call.request # None) =>
        LET body == call.request[1].json
            defaults == DefaultItems(wrapper.op)
        IN  /\ \A k \in UnsetKeys \ DOMAIN defaults : k \notin DOMAIN body
            /\ \A k \in DOMAIN defaults \ (SuppliedKeys \cup DOMAIN wrapper.kwargs) :
                    k \in DOMAIN body /\ body[k] = defaults[k]
            /\ DOMAIN body \subseteq SuppliedKeys \cup DOMAIN wrapper.kwargs \cup DOMAIN defaults
            /\ \A k \in DOMAIN body : body[k] # PyNone

C15_Witness ==
    /\ wrapper.op = "SDXL.generate"
    /\ wrapper.named["negative_prompt"] = None
    /\ wrapper.named["seed"] = None
    /\ wrapper.named["steps"] # None
    /\ call.request # None
    /\ DOMAIN call.request[1].json = {"prompt", "base64", "steps"}

\* C16: image_to_image given only image_url or only image_base64, a non-empty string,
\* makes one POST to BASE_URL followed by the model name, whose body is the caller's
\* parameters with the key image holding the given string unchanged; text_to_image
\* makes one POST to the same kind of address whose body is the caller's parameters.
C16_PassThrough ==
    /\ (/\ call.op = "image_to_image"
        /\ Supplied(call.args) = 1
        /\ Truthy(call.args.image_url) \/ Truthy(call.args.image_base64)) =>
            LET given == IF call.args.image_url # None THEN call.args.image_url[1]
                         ELSE call.args.image_base64[1]
                body == call.request[1].json
            IN  /\ call.nposts = 1
                /\ call.request[1].url = BASE_URL \o call.args.model_name
                /\ DOMAIN body = DOMAIN call.args.params \cup {"image"}
                /\ body["image"] = given
                /\ \A k \in DOMAIN call.args.params \ {"image"} : body[k] = call.args.params[k]
    /\ call.op = "text_to_image" =>
        /\ call.nposts = 1
        /\ call.request[1].url = BASE_URL \o call.args.model_name
        /\ call.request[1].json = call.args.params

C16_Witness ==
    /\ call.op = "image_to_image"
    /\ call.args.image_url = None
    /\ call.args.image_path = None
    /\ call.args.image_base64 = Some(Inline1)
    /\ DOMAIN call.args.params = {"prompt"}
    /\ call.nposts = 1
    /\ DOMAIN call.request[1].json = {"prompt", "image"}
    /\ call.request[1].json["image"] = Inline1
    /\ call.request[1].json["prompt"] = Prompt1

\* the format tag of a data URL: what stands between "data:image/" and ";"
FormatTag(s) ==
    SubSeq(s, Len(DataImagePrefix) + 1,
           (CHOOSE i \in 1..Len(s) : s[i] = ";" /\ \A j \in 1..(i - 1) : s[j] # ";") - 1)

\* the path of the local file the last call was given
LocalPath ==
    IF wrapper.op = "BackgroundRemoval.generate" THEN wrapper.named["image_path"]
    ELSE call.args.image_path

\* C17: when a local image file is sent, the string under the key image decodes through
\* base64_to_image to the pixels of the file, and its format tag names the format of the
\* file.
C17_RoundTrip ==
    (/\ call.op # "none"
     /\ Truthy(LocalPath)
     /\ load_image_from_path(LocalPath[1]) # None) =>
        /\ call.request # None
        /\ LET inline == call.request[1].json["image"]
               original == load_image_from_path(LocalPath[1])[1]
           IN  /\ base64_to_image(inline) # None
               /\ base64_to_image(inline)[1].pixels = original.pixels
               /\ FormatTag(inline) = Lower(original.format)

\* what does hold: image_to_image sends the bytes of the file unchanged, and the facade
\* sends a JPEG of the image; both under the tag jpeg
C17_BytesOrJpeg ==
    (/\ call.op # "none"
     /\ Truthy(LocalPath)
     /\ load_image_from_path(LocalPath[1]) # None
     /\ call.request # None) =>
        LET inline == call.request[1].json["image"]
            original == load_image_from_path(LocalPath[1])[1]
        IN  /\ FormatTag(inline) = <<"j","p","e","g">>
            /\ IF wrapper.op = "BackgroundRemoval.generate"
               THEN base64_to_image(inline) =
                        Some(PilImage("JPEG", "RGB", Quantize(original.pixels)))
               ELSE b64decode(AfterComma(inline)) = FileSystem(LocalPath[1])[1]

\* C18: the delay before retry i (i = 0, 1, ...) is initial_delay * 2^i, so it doubles from
\* one retry to the next, and the sleep before retry i lasts between that delay and 1.1
\* times that delay.
C18_BackoffDelays ==
    /\ sleeps = retries
    /\ delay = initial_delay * 2 ^ retries
    /\ sleeps > 0 =>
        LET delay_i == initial_delay * 2 ^ (sleeps - 1)
        IN  /\ wait_time >= delay_i * 1000
            /\ wait_time <= delay_i * 1100
    /\ sleeps = 0 => wait_time = 0
    /\ slept >= initial_delay * 1000 * (2 ^ sleeps - 1)
    /\ slept <= initial_delay * 1100 * (2 ^ sleeps - 1)

C18_Witness ==
    /\ sleeps = 3
    /\ initial_delay = 2
    /\ delay = 16
    /\ wait_time = 8800
    /\ slept = 8800 + 4000 + 2200

\* the structure of the retry loop: run_with_backoff sleeps exactly once between two
\* attempts, and ends right after an attempt
RetryStructure ==
    /\ pc \in {"Attempting", "Backoff", "Succeeded", "Failed"}
    /\ pc = "Attempting" => sleeps = attempts
    /\ pc \in {"Backoff", "Succeeded", "Failed"} => sleeps = attempts - 1
    /\ pc = "Backoff" => (last[1].outcome.kind = "raise" /\ retries < max_retries)
    /\ pc = "Succeeded" => ret = Some(last[1].outcome)
    /\ pc = "Failed" => ret = Some(last[1].outcome)

\* C19: run_with_backoff is in Backoff only right after an attempt that failed with the
\* error of a 429 response while retries remain; a sleep is followed by an attempt, never
\* by the end of the run, and the run ends right after an attempt, so that it has slept
\* once less than it has attempted.
C19_RetryStateMachine ==
    /\ RetryStructure
    /\ pc = "Backoff" => last[1].status_code = 429
    /\ sleeps > 0 => n429 >= sleeps

\* C19 with "a 429 error" read as an error whose message contains 429, as the code does
C19_StateMachineByMessage ==
    /\ RetryStructure
    /\ pc = "Backoff" => Contains(ErrorMessage(last[1].outcome), RateLimitMarker)

\* how a run of run_with_backoff stands and ends: at most max_retries + 1 attempts, and at
\* the end at least one attempt and the result or the error of the last attempt
BoundedAttempts ==
    /\ attempts <= max_retries + 1
    /\ pc \in {"Succeeded", "Failed"} =>
        /\ attempts >= 1
        /\ ret = Some(last[1].outcome)
        /\ pc = "Succeeded" <=> last[1].outcome.kind = "return"
        /\ ~StartsWith(ret[1].message, FailedAfterPrefix)

\* C20: whatever the attempts do, run_with_backoff ends, after at least one and at most
\* max_retries + 1 attempts, by returning the result of its last attempt or raising the
\* error of its last attempt; the exception after the loop is never raised.
C20_Terminates == []BoundedAttempts /\ <>(pc \in {"Succeeded", "Failed"})

C20_Witness ==
    /\ pc = "Failed"
    /\ max_retries = 3
    /\ attempts = 4
    /\ sleeps = 3
    /\ ret = Some(last[1].outcome)
    /\ last[1].outcome.kind = "raise"

\* the generate methods of the image-taking model classes that are modelled
Facades == {"BackgroundRemoval.generate", "SDOutpainting.generate", "FaceSwap.generate"}

\* C21: a generate call of an image-taking model class given both image_url and
\* image_path, or neither, raises the ValueError of the source check and makes no POST.
C21_FacadeOneSource ==
    (/\ wrapper.op \in Facades
     /\ (wrapper.named["image_url"] # None) = (wrapper.named["image_path"] # None)) =>
        /\ call.outcome = Raise("ValueError", OneSourceMessage)
        /\ call.nposts = 0
        /\ call.request = None

\* what does hold: a call given neither source is rejected by the source check, and a
\* call given a non-empty image_url sends that URL, whatever image_path is
C21_UrlWins ==
    wrapper.op \in Facades =>
        /\ (wrapper.named["image_url"] = None /\ wrapper.named["image_path"] = None) =>
            /\ call.outcome = Raise("ValueError", OneSourceMessage)
            /\ call.nposts = 0
        /\ Truthy(wrapper.named["image_url"]) =>
            /\ call.nposts = 1
            /\ call.request[1].json["image"] = wrapper.named["image_url"][1]

\* the value a supplied named argument stands for in the body: the string itself, or for
\* image_path the data URL of the file
ExplicitValue(p) ==
    IF p = "image_path"
    THEN DataUrlPrefix \o b64encode(FileSystem(wrapper.named[p][1])[1])
    ELSE wrapper.named[p][1]

\* C22: when a named argument with a non-empty value and an entry of **kwargs fill the
\* same key of the body, the body holds the value of the named argument: mask of
\* face_swap is mask_url, image is the given image source.
C22_ExplicitWins ==
    (wrapper.op \in {"face_swap", "image_to_image"} /\ call.request # None) =>
        \A p \in DOMAIN wrapper.named :
            (Truthy(wrapper.named[p]) /\ ParamKey(p) \in DOMAIN wrapper.kwargs) =>
                call.request[1].json[ParamKey(p)] = ExplicitValue(p)

\* what does hold: the image source wins over image of **kwargs, and mask of **kwargs
\* wins over mask_url
C22_LastWriteWins ==
    (wrapper.op \in {"face_swap", "image_to_image"} /\ call.request # None) =>
        LET body == call.request[1].json
        IN  /\ \A p \in {"image_url", "image_path", "image_base64"} :
                Truthy(wrapper.named[p]) => body["image"] = ExplicitValue(p)
            /\ (wrapper.op = "face_swap" /\ "mask" \in DOMAIN wrapper.kwargs) =>
                body["mask"] = wrapper.kwargs["mask"]

\* C23: for a status outside 200..299, _handle_response and veo_3 raise the status error,
\* whose message contains the status code, whatever the body is: also for a body that
\* is JSON but not a mapping, and no exception of another kind is raised.
C23_ErrorStatusAlwaysClassified ==
    (call.response # None /\ call.response[1].status_code \notin 200..299) =>
        /\ IsStatusError(call.outcome)
        /\ Contains(call.outcome.message, Str(call.response[1].status_code))
        /\ call.outcome.type \notin {"TypeError", "ValueError"}

\* what does hold: for a status other than 200 the status error is raised unless the body
\* is JSON and not a mapping; null raises TypeError, and so does a string that contains
\* the word error
C23_UnlessNotMapping ==
    (call.response # None /\ call.response[1].status_code # 200) =>
        LET doc == json(call.response[1].content)
        IN  /\ (doc = None \/ doc[1].type = "dict") =>
                /\ IsStatusError(call.outcome)
                /\ Contains(call.outcome.message, Str(call.response[1].status_code))
            /\ (doc # None /\ doc[1].type # "dict") =>
                (call.outcome.type = "TypeError" \/ IsStatusError(call.outcome))
            /\ (doc # None /\ doc[1].type = "NoneType") => call.outcome.type = "TypeError"

\* a decoded result or a classified error: a returned value, the status error or the
\* decode error
Classified(outcome) ==
    \/ outcome.kind = "return"
    \/ IsStatusError(outcome)
    \/ outcome = Raise("UnidentifiedImageError", CannotIdentifyMessage)

\* C24: a call of image_to_image given exactly one of image_url, image_path and
\* image_base64, the empty string included, makes exactly one POST and ends with a
\* returned value or a classified error.
C24_OneSourceOnePost ==
    (call.op = "image_to_image" /\ Supplied(call.args) = 1) =>
        /\ call.nposts = 1
        /\ Classified(call.outcome)

\* what does hold: a single source that is the empty string is answered with
\* UnboundLocalError and no POST; a single non-empty source is POSTed once unless it is
\* the path of a missing file
C24_EmptySourceUnbound ==
    (call.op = "image_to_image" /\ Supplied(call.args) = 1) =>
        LET given == CHOOSE x \in {call.args.image_url, call.args.image_path,
                                   call.args.image_base64} : x # None
        IN  /\ given = Some(<< >>) =>
                /\ call.outcome = Raise("UnboundLocalError", UnboundResponseMessage)
                /\ call.nposts = 0
            /\ (given # Some(<< >>) /\ call.outcome.type # "FileNotFoundError") =>
                call.nposts = 1

\* the named parameters of a model method that are not image sources
OptionParams == DOMAIN wrapper.named \ {"image_url", "image_path", "image_base64"}

\* C25: every optional parameter of a model method that the caller supplies with a value
\* other than None, the empty string included, is in the body under its key with that
\* value.
C25_SuppliedIsSent ==
    (wrapper.op \in PayloadMethods /\ call.request # None) =>
        \A p \in OptionParams :
            (wrapper.named[p] # None /\ ParamKey(p) \notin DOMAIN wrapper.kwargs) =>
                /\ ParamKey(p) \in DOMAIN call.request[1].json
                /\ call.request[1].json[ParamKey(p)] = wrapper.named[p][1]

\* what does hold: a supplied value is sent unless it is the empty string given as
\* prompt of sd_outpainting or word2img, mask_url of face_swap or input_image of
\* flux_kontext_pro, which is left out
C25_EmptyStringDropped ==
    (wrapper.op \in PayloadMethods /\ call.request # None) =>
        \A p \in OptionParams :
            (wrapper.named[p] # None /\ ParamKey(p) \notin DOMAIN wrapper.kwargs) =>
                IF /\ wrapper.named[p] = Some(<< >>)
                   /\ <<wrapper.op, p>> \in {<<"sd_outpainting", "prompt">>,
                                             <<"word2img", "prompt">>,
                                             <<"face_swap", "mask_url">>,
                                             <<"flux_kontext_pro", "input_image">>}
                THEN ParamKey(p) \notin DOMAIN call.request[1].json
                ELSE /\ ParamKey(p) \in DOMAIN call.request[1].json
                     /\ call.request[1].json[ParamKey(p)] = wrapper.named[p][1]

====
